---- MODULE Spec2Model ----
(***************************************************************************)
(* Model of TimeSliderController (Plugin/CppApi/source/                    *)
(* TimeSliderController.cpp): the controller's fields, the Qt connections  *)
(* it makes, the views / datasets / layers it reads, and one action per    *)
(* public operation or delivered signal.                                   *)
(*                                                                         *)
(* Numbers.  Timestamps are integers (milliseconds since the epoch), as    *)
(* QDateTime::toMSecsSinceEpoch gives them.  m_intervalMS is a double in   *)
(* the source; the model keeps it an integer, so TimeValue durations are   *)
(* whole numbers and every product i * m_intervalMS is exact.  Quantities  *)
(* handed to toTimeUnit and returned by toMilliseconds are kept as a pair  *)
(* (days, milliseconds of the day) so that a year or a century of          *)
(* milliseconds is represented exactly.                                    *)
(***************************************************************************)
EXTENDS Integers, Sequences, FiniteSets, TLC

\* ------------------------------------------------------------------ bounds
\* The most connections of one signal to the controller that a run makes.
MaxConn == 2
\* The largest step index handed to the setters.
MaxIndex == 2
\* The most layers whose intervals one interval selection visits.
MaxLayers == 3
\* Ranges are taken up to this many milliseconds either side of a unit bound.
MaxDelta == 10
\* Extents handed to unionTimeExtent alone lie within MaxTime ms of the epoch.
MaxTime == 2

\* --------------------------------------------------------- library values
NULL == "NULL"

\* QDateTime: a default-constructed (invalid) QDateTime stores 0 ms.
NullDT == [valid |-> FALSE, ms |-> 0]
DT(n) == [valid |-> TRUE, ms |-> n]
toMSecsSinceEpoch(dt) == dt.ms
fromMSecsSinceEpoch(n) == DT(n)
addMSecs(dt, n) == IF dt.valid THEN DT(dt.ms + n) ELSE NullDT

\* TimeExtent: TimeExtent() is empty; TimeExtent(start, end) keeps its bounds.
EmptyExtent == [empty |-> TRUE, s |-> NullDT, e |-> NullDT]
TimeExtent(start, end) == [empty |-> FALSE, s |-> start, e |-> end]
Ext(a, b) == TimeExtent(DT(a), DT(b))

\* TimeValue: TimeValue() is empty; TimeValue(duration, unit).
EmptyTimeValue == [empty |-> TRUE, duration |-> 0, unit |-> "Unknown"]
TimeValue(duration, unit) == [empty |-> FALSE, duration |-> duration, unit |-> unit]

TimeUnits ==
  {"Centuries", "Decades", "Years", "Months", "Weeks", "Days", "Hours",
   "Minutes", "Seconds", "Milliseconds"}

\* ---------------------------------------- exact millisecond quantities
\* A millisecond count n is held as [d, ms] with n = d * 86400000 + ms and
\* 0 <= ms < 86400000.
millisecondsPerDay == 86400000
millisecondsPerHour == 3600000
millisecondsPerMinute == 60000
millisecondsPerSecond == 1000
millisecondsPerWeek == 604800000
daysPerCentury == 36500
daysPerDecade == 3650
daysPerYear == 365
mothsPerYear == 12

BigNorm(d, ms) ==
  [d |-> d + (ms \div millisecondsPerDay), ms |-> ms % millisecondsPerDay]
BigOfInt(n) == BigNorm(0, n)
BigDays(n) == [d |-> n, ms |-> 0]
\* k times the constant c (c below 2^31)
BigMul(k, c) == BigNorm(k * (c \div millisecondsPerDay), k * (c % millisecondsPerDay))
BigLess(a, b) == a.d < b.d \/ (a.d = b.d /\ a.ms < b.ms)
BigToInt(x) == x.d * millisecondsPerDay + x.ms

\* ------------------------------------------------------- free functions

\* QDateTime::operator< of the Qt the controller is built against: since Qt
\* 5.14 an invalid datetime is less than every valid one; before, the stored
\* milliseconds (0 for an invalid datetime) are compared.
dtLess(invalidLeast, a, b) ==
  IF invalidLeast
    THEN IF ~a.valid THEN b.valid ELSE IF ~b.valid THEN FALSE ELSE a.ms < b.ms
    ELSE a.ms < b.ms

\* QDateTime::operator== of the same two Qt generations.
dtEq(invalidLeast, a, b) ==
  IF invalidLeast
    THEN a.valid = b.valid /\ (a.valid => a.ms = b.ms)
    ELSE a.ms = b.ms

unionTimeExtent(q, timeExtent, otherTimeExtent) ==
  IF otherTimeExtent.empty
    THEN timeExtent
    ELSE LET startTime == IF dtLess(q, timeExtent.s, otherTimeExtent.s)
                            THEN timeExtent.s ELSE otherTimeExtent.s
             endTime == IF dtLess(q, otherTimeExtent.e, timeExtent.e)
                          THEN timeExtent.e ELSE otherTimeExtent.e
         IN  TimeExtent(startTime, endTime)

\* A unit estimate whose century test includes the bound.
toTimeUnit_CenturyInclusive(range) ==
  IF BigLess(range, BigOfInt(millisecondsPerMinute)) THEN "Seconds"
  ELSE IF BigLess(range, BigOfInt(millisecondsPerHour)) THEN "Minutes"
  ELSE IF BigLess(range, BigDays(1)) THEN "Hours"
  ELSE IF BigLess(range, BigDays(daysPerYear)) THEN "Days"
  ELSE IF ~BigLess(range, BigDays(daysPerYear * 100)) THEN "Centuries"
  ELSE "Years"

\* range is a millisecond count in [d, ms] form
toTimeUnit(range) ==
  IF BigLess(range, BigOfInt(millisecondsPerMinute)) THEN "Seconds"
  ELSE IF BigLess(range, BigOfInt(millisecondsPerHour)) THEN "Minutes"
  ELSE IF BigLess(range, BigDays(1)) THEN "Hours"
  ELSE IF BigLess(range, BigDays(daysPerYear)) THEN "Days"
  ELSE IF BigLess(BigDays(daysPerYear * 100), range) THEN "Centuries"
  ELSE "Years"

\* the result is a millisecond count in [d, ms] form
toMilliseconds(timeValue) ==
  CASE timeValue.unit = "Centuries" -> BigDays(timeValue.duration * daysPerCentury)
    [] timeValue.unit = "Decades" -> BigDays(timeValue.duration * daysPerDecade)
    [] timeValue.unit = "Years" -> BigDays(timeValue.duration * daysPerYear)
    [] timeValue.unit = "Months" ->
         BigNorm(timeValue.duration * (daysPerYear \div mothsPerYear),
                 timeValue.duration
                   * (((daysPerYear % mothsPerYear) * millisecondsPerDay) \div mothsPerYear))
    [] timeValue.unit = "Weeks" -> BigMul(timeValue.duration, millisecondsPerWeek)
    [] timeValue.unit = "Days" -> BigDays(timeValue.duration)
    [] timeValue.unit = "Hours" -> BigMul(timeValue.duration, millisecondsPerHour)
    [] timeValue.unit = "Minutes" -> BigMul(timeValue.duration, millisecondsPerMinute)
    [] timeValue.unit = "Seconds" -> BigMul(timeValue.duration, millisecondsPerSecond)
    [] timeValue.unit = "Milliseconds" -> BigOfInt(timeValue.duration)
    [] OTHER -> BigOfInt(timeValue.duration)

\* operator >(const TimeValue&, const TimeValue&)
TimeValueGreater(timeValue, otherTimeValue) ==
  IF timeValue.unit = otherTimeValue.unit
    THEN timeValue.duration > otherTimeValue.duration
    ELSE BigLess(toMilliseconds(otherTimeValue), toMilliseconds(timeValue))

\* operator ==(const TimeExtent&, const TimeExtent&)
TimeExtentEq(q, timeExtent, otherTimeExtent) ==
  dtEq(q, timeExtent.s, otherTimeExtent.s) /\ dtEq(q, timeExtent.e, otherTimeExtent.e)

\* conversion of a double num / den to int: truncation toward zero
ToInt(num, den) ==
  IF num >= 0 THEN num \div den ELSE -((-num) \div den)


\* ------------------------------------------------- the world of one run
\* Indices handed to the setters: one below the first step up to MaxIndex.
StepIndices == -1 .. MaxIndex

\* The two kinds of GeoView setGeoView tells apart by class name.
Views == {"mapView", "sceneView"}
IsMapQuickView(v) == v = "mapView"
IsSceneQuickView(v) == v = "sceneView"

\* Maps a MapQuickView can show and scenes a SceneQuickView can show; each
\* owns one LayerListModel (its operationalLayers), named after it.
Maps == {"map1", "map2"}
Scenes == {"scene1"}
Datasets == Maps \cup Scenes
DatasetsOf(v) == IF IsMapQuickView(v) THEN Maps ELSE Scenes

\* Layers and what each reports.  timeAware: the layer is a TimeAware;
\* extent / interval: TimeAware::fullTimeExtent() / timeInterval().
Layers == {"la", "lb", "le", "ln", "lh", "lf", "lc", "ld"}
LayerTable ==
  [l \in Layers |->
    CASE l = "la" -> [timeAware |-> TRUE, filtering |-> TRUE, visible |-> TRUE,
                      extent |-> Ext(2000, 3000), interval |-> EmptyTimeValue]
      [] l = "lb" -> [timeAware |-> TRUE, filtering |-> TRUE, visible |-> TRUE,
                      extent |-> Ext(-2000, 1000), interval |-> TimeValue(2, "Seconds")]
      [] l = "le" -> [timeAware |-> TRUE, filtering |-> TRUE, visible |-> TRUE,
                      extent |-> EmptyExtent, interval |-> EmptyTimeValue]
      [] l = "ln" -> [timeAware |-> FALSE, filtering |-> FALSE, visible |-> TRUE,
                      extent |-> EmptyExtent, interval |-> EmptyTimeValue]
      [] l = "lh" -> [timeAware |-> TRUE, filtering |-> TRUE, visible |-> FALSE,
                      extent |-> Ext(-9000, 9000), interval |-> TimeValue(1, "Hours")]
      [] l = "lf" -> [timeAware |-> TRUE, filtering |-> FALSE, visible |-> TRUE,
                      extent |-> Ext(-8000, 8000), interval |-> TimeValue(1, "Days")]
      [] l = "lc" -> [timeAware |-> TRUE, filtering |-> TRUE, visible |-> TRUE,
                      extent |-> Ext(1000, 5000), interval |-> EmptyTimeValue]
      [] l = "ld" -> [timeAware |-> TRUE, filtering |-> TRUE, visible |-> TRUE,
                      extent |-> Ext(4000, 6000), interval |-> EmptyTimeValue]]

\* The layers each dataset starts with in world w; only map1's change.
InitialLayers(w) ==
  [d \in Datasets |->
    CASE d = "map1" -> w.initial
      [] d = "map2" -> <<"ln", "lh", "lf", "lc">>
      [] d = "scene1" -> <<"ld">>]
InitialLoadStatus ==
  [l \in Layers |-> IF l = "lb" THEN "Loading" ELSE "Loaded"]

\* Extents a view takes on its own (the application or the user sets them).
ViewExtents == {EmptyExtent, Ext(-3000, 3000)}

\* The runs checked.  Each run has the views, the datasets and the layers of
\* one of these worlds (map1 starts with the layers of `initial' and the
\* application adds and removes those of `movable'), calls the setters with
\* the world's indices, and is built against one of the two generations of
\* QDateTime comparison.
LayersWorld ==
  [name |-> "layers", views |-> {"mapView"}, datasets |-> {"map1", "map2"},
   initial |-> << >>, movable |-> {"la", "lb", "le"}, indices |-> {},
   extents |-> {}, invalidLeast |-> TRUE]
OlderQtWorld ==
  [name |-> "olderQt", views |-> {"mapView"}, datasets |-> {"map1"},
   initial |-> << >>, movable |-> {"la", "le"}, indices |-> {},
   extents |-> {}, invalidLeast |-> FALSE]
StepsWorld ==
  [name |-> "steps", views |-> {"mapView"}, datasets |-> {"map1"},
   initial |-> <<"la", "lb">>, movable |-> {}, indices |-> StepIndices,
   extents |-> ViewExtents, invalidLeast |-> TRUE]
ViewsWorld ==
  [name |-> "views", views |-> Views, datasets |-> Datasets,
   initial |-> <<"la">>, movable |-> {}, indices |-> {},
   extents |-> ViewExtents, invalidLeast |-> TRUE]
Worlds == {LayersWorld, OlderQtWorld, StepsWorld, ViewsWorld}

VARIABLES
  world,               \* what this run has: its views, datasets, layers, Qt
  m_mapView,           \* MapQuickView* or NULL
  m_sceneView,         \* SceneQuickView* or NULL
  m_operationalLayers, \* LayerListModel* (named by its dataset) or NULL
  m_fullTimeExtent,
  m_intervalMS,
  m_numberOfSteps,
  m_stepTimes,
  m_startStep,
  m_endStep,
  connView,            \* connections view.mapChanged/sceneChanged -> controller
  connLayers,          \* connections layerAdded and layerRemoved -> controller
  connDone,            \* connections layer.doneLoading -> controller
  viewMap,             \* the map / scene each view shows, or NULL
  viewExtent,          \* GeoView::timeExtent() of each view
  layers,              \* the layers of each dataset's operationalLayers, in order
  loadStatus,          \* Layer::loadStatus() of each layer
  lastOp,              \* the operation that ran last and its arguments
  emitted,             \* signals the controller emitted during lastOp, in order
  pushed,              \* extents handed to GeoView::setTimeExtent during lastOp
  recomputes,          \* one entry per run of initializeTimeProperties in lastOp
  crashed,             \* a null pointer was dereferenced
  timeAwareIntervals,  \* timeInterval() of the layers the second loop has visited
  timeStepInterval,    \* the second loop's timeStepInterval after those layers
  milisecondsRange,    \* a range handed to toTimeUnit, in [d, ms] form
  estimatedInterval,   \* the interval estimated for milisecondsRange
  unioned              \* a call of unionTimeExtent: its two arguments and its result

vars ==
  <<world, m_mapView, m_sceneView, m_operationalLayers, m_fullTimeExtent,
    m_intervalMS, m_numberOfSteps, m_stepTimes, m_startStep, m_endStep, connView,
    connLayers, connDone, viewMap, viewExtent, layers, loadStatus, lastOp, emitted,
    pushed, recomputes, crashed, timeAwareIntervals, timeStepInterval,
    milisecondsRange, estimatedInterval, unioned>>

\* The variables of the controller and of what it is attached to.
controllerVars ==
  <<world, m_mapView, m_sceneView, m_operationalLayers, m_fullTimeExtent,
    m_intervalMS, m_numberOfSteps, m_stepTimes, m_startStep, m_endStep, connView,
    connLayers, connDone, viewMap, viewExtent, layers, loadStatus, lastOp, emitted,
    pushed, recomputes, crashed>>

\* The state as one value, so that a handler is a function from state to state.
Cur ==
  [q |-> world.invalidLeast, mapView |-> m_mapView, sceneView |-> m_sceneView,
   opLayers |-> m_operationalLayers, full |-> m_fullTimeExtent,
   intervalMS |-> m_intervalMS, numberOfSteps |-> m_numberOfSteps,
   stepTimes |-> m_stepTimes, startStep |-> m_startStep, endStep |-> m_endStep,
   connView |-> connView, connLayers |-> connLayers, connDone |-> connDone,
   viewMap |-> viewMap, viewExtent |-> viewExtent, layers |-> layers,
   loadStatus |-> loadStatus, emitted |-> << >>, pushed |-> << >>,
   recomputes |-> << >>, crashed |-> crashed]

Commit(w, op) ==
  /\ world' = world
  /\ m_mapView' = w.mapView
  /\ m_sceneView' = w.sceneView
  /\ m_operationalLayers' = w.opLayers
  /\ m_fullTimeExtent' = w.full
  /\ m_intervalMS' = w.intervalMS
  /\ m_numberOfSteps' = w.numberOfSteps
  /\ m_stepTimes' = w.stepTimes
  /\ m_startStep' = w.startStep
  /\ m_endStep' = w.endStep
  /\ connView' = w.connView
  /\ connLayers' = w.connLayers
  /\ connDone' = w.connDone
  /\ viewMap' = w.viewMap
  /\ viewExtent' = w.viewExtent
  /\ layers' = w.layers
  /\ loadStatus' = w.loadStatus
  /\ emitted' = w.emitted
  /\ pushed' = w.pushed
  /\ recomputes' = w.recomputes
  /\ crashed' = w.crashed
  /\ lastOp' = op
  /\ UNCHANGED <<timeAwareIntervals, timeStepInterval, milisecondsRange,
                 estimatedInterval, unioned>>


\* ------------------------------------------------------------ handlers
\* What a slot connected to the signal would read at the moment of the emit.
Emit(w, sig) ==
  [w EXCEPT !.emitted =
     Append(@, [sig |-> sig, full |-> w.full, intervalMS |-> w.intervalMS,
                numberOfSteps |-> w.numberOfSteps, nStepTimes |-> Len(w.stepTimes)])]

\* The properties a recomputation derives.
Derived(w) ==
  <<w.full, w.intervalMS, w.numberOfSteps, w.stepTimes, w.startStep, w.endStep>>

setFullTimeExtent(w, fullTimeExtent) ==
  IF TimeExtentEq(w.q, fullTimeExtent, w.full)
    THEN w
    ELSE Emit([w EXCEPT !.full = fullTimeExtent], "fullTimeExtentChanged")

setNumberOfSteps(w, numberOfSteps) ==
  IF numberOfSteps = w.numberOfSteps
    THEN w
    ELSE Emit([w EXCEPT !.numberOfSteps = numberOfSteps], "numberOfStepsChanged")

setStepTimes(w) ==
  Emit([w EXCEPT !.stepTimes =
          [i \in 1 .. w.numberOfSteps |-> addMSecs(w.full.s, (i - 1) * w.intervalMS)]],
       "stepTimesChanged")

\* A current extent that ignores the attached view.
currentTimeExtent_AlwaysFull(w) == w.full

currentTimeExtent(w) ==
  LET geoViewExtent == IF w.sceneView # NULL THEN w.viewExtent[w.sceneView]
                       ELSE IF w.mapView # NULL THEN w.viewExtent[w.mapView]
                       ELSE w.full
  IN  IF geoViewExtent.empty THEN w.full ELSE geoViewExtent

currentExtentStart(w) == currentTimeExtent(w).s
currentExtentEnd(w) == currentTimeExtent(w).e
fullExtentStart(w) == w.full.s
fullExtentEnd(w) == w.full.e

\* Step positions taken from the bounds of the full extent.
calculateStepPositions_FromFullExtent(w) ==
  IF w.full.empty
    THEN w
    ELSE Emit(Emit([w EXCEPT !.startStep = 0,
                             !.endStep = ToInt(toMSecsSinceEpoch(fullExtentEnd(w))
                                                 - toMSecsSinceEpoch(fullExtentStart(w)),
                                               w.intervalMS)],
                   "startStepChanged"), "endStepChanged")

calculateStepPositions(w) ==
  IF w.full.empty
    THEN w
    ELSE LET fullStartMs == toMSecsSinceEpoch(fullExtentStart(w))
             w1 == [w EXCEPT
                      !.startStep =
                        ToInt(toMSecsSinceEpoch(currentExtentStart(w)) - fullStartMs,
                              w.intervalMS),
                      !.endStep =
                        ToInt(toMSecsSinceEpoch(currentExtentEnd(w)) - fullStartMs,
                              w.intervalMS)]
         IN  Emit(Emit(w1, "startStepChanged"), "endStepChanged")

\* GeoView::setTimeExtent of the attached view: the view keeps what it is given.
setTimeExtent(w, newExtent) ==
  IF w.sceneView # NULL
    THEN [w EXCEPT !.viewExtent[w.sceneView] = newExtent,
                   !.pushed = Append(@, [view |-> w.sceneView, extent |-> newExtent])]
  ELSE IF w.mapView # NULL
    THEN [w EXCEPT !.viewExtent[w.mapView] = newExtent,
                   !.pushed = Append(@, [view |-> w.mapView, extent |-> newExtent])]
  ELSE w

\* The first loop of initializeTimeProperties, from row i on: the layers that
\* are TimeAware, done loading, time filtering and visible, in order; a layer
\* that is not done loading gets one more doneLoading connection.
RECURSIVE ScanLayers(_, _, _)
ScanLayers(w, i, timeAwareLayers) ==
  IF i > Len(w.layers[w.opLayers])
    THEN [w |-> w, timeAwareLayers |-> timeAwareLayers]
    ELSE LET layer == w.layers[w.opLayers][i]
             timeAwareLayer == LayerTable[layer]
         IN  IF ~timeAwareLayer.timeAware
               THEN ScanLayers(w, i + 1, timeAwareLayers)
             ELSE IF w.loadStatus[layer] # "Loaded" /\ w.loadStatus[layer] # "FailedToLoad"
               THEN ScanLayers([w EXCEPT !.connDone[layer] = @ + 1], i + 1, timeAwareLayers)
             ELSE IF ~timeAwareLayer.filtering
               THEN ScanLayers(w, i + 1, timeAwareLayers)
             ELSE IF ~timeAwareLayer.visible
               THEN ScanLayers(w, i + 1, timeAwareLayers)
             ELSE ScanLayers(w, i + 1, Append(timeAwareLayers, layer))

\* One turn of the interval selection of the second loop.
\* A selection that keeps the interval of the layer visited last.
SelectInterval_Latest(selected, timeAwareInterval) == timeAwareInterval

SelectInterval(selected, timeAwareInterval) ==
  IF selected.empty THEN timeAwareInterval
  ELSE IF TimeValueGreater(timeAwareInterval, selected) THEN timeAwareInterval
  ELSE selected

\* The second loop of initializeTimeProperties, from element i on.
RECURSIVE UnionLoop(_, _, _, _)
UnionLoop(w, timeAwareLayers, i, selected) ==
  IF i > Len(timeAwareLayers)
    THEN [w |-> w, timeStepInterval |-> selected]
    ELSE LET timeAware == LayerTable[timeAwareLayers[i]]
         IN  UnionLoop(setFullTimeExtent(w, unionTimeExtent(w.q, timeAware.extent, w.full)),
                       timeAwareLayers, i + 1,
                       SelectInterval(selected, timeAware.interval))

\* The interval initializeTimeProperties resolves for a range in [d, ms] form.
ResolveInterval(selected, range) ==
  IF selected.empty
    THEN TimeValue(1, toTimeUnit(range))
    ELSE selected

\* A step count that leaves out the step at the start of the extent.
StepCount_NoPlusOne(range, intervalMS) == ToInt(range, intervalMS)

\* (range / m_intervalMS) + 1 of line 294, converted to int at the call.
StepCount(range, intervalMS) == ToInt(range + intervalMS, intervalMS)

\* initializeTimeProperties from line 267 on, with the layers found.
DeriveTimeProperties(w0, timeAwareLayers) ==
  LET looped == UnionLoop(w0, timeAwareLayers, 1, EmptyTimeValue)
      w1 == looped.w
      start == toMSecsSinceEpoch(w1.full.s)
      end == toMSecsSinceEpoch(w1.full.e)
      range == end - start
      resolved == ResolveInterval(looped.timeStepInterval, BigOfInt(range))
      w2 == [w1 EXCEPT !.intervalMS = BigToInt(toMilliseconds(resolved))]
      w3 == setNumberOfSteps(w2, StepCount(range, w2.intervalMS))
      w4 == calculateStepPositions(w3)
      w5 == setStepTimes(w4)
  IN  Emit(w5, "currentTimeExtentChanged")

\* The entry made in recomputes for one run of initializeTimeProperties.
Logged(before, after, timeAwareLayers) ==
  [after EXCEPT !.recomputes =
     Append(@, [eligible |-> timeAwareLayers,
                changed |-> Derived(after) # Derived(before),
                emits |-> Len(after.emitted) - Len(before.emitted)])]

\* A recomputation without the return of lines 264-265.
initializeTimeProperties_NoEarlyReturn(w) ==
  IF w.opLayers = NULL
    THEN Logged(w, w, << >>)
    ELSE LET scan == ScanLayers(w, 1, << >>)
         IN  Logged(w, DeriveTimeProperties(scan.w, scan.timeAwareLayers),
                    scan.timeAwareLayers)

initializeTimeProperties(w) ==
  IF w.opLayers = NULL
    THEN Logged(w, w, << >>)
    ELSE LET scan == ScanLayers(w, 1, << >>)
         IN  IF scan.timeAwareLayers = << >>
               THEN Logged(w, scan.w, << >>)
               ELSE Logged(w, DeriveTimeProperties(scan.w, scan.timeAwareLayers),
                           scan.timeAwareLayers)

onOperationalLayersChanged(w) == initializeTimeProperties(w)

\* m_mapView->map() with m_mapView null: the program stops.
onMapChanged(w) ==
  IF w.mapView = NULL THEN [w EXCEPT !.crashed = TRUE]
  ELSE IF w.viewMap[w.mapView] = NULL THEN w
  ELSE initializeTimeProperties(
         [w EXCEPT !.opLayers = w.viewMap[w.mapView],
                   !.connLayers[w.viewMap[w.mapView]] = @ + 1])

onSceneChanged(w) ==
  IF w.sceneView = NULL THEN [w EXCEPT !.crashed = TRUE]
  ELSE IF w.viewMap[w.sceneView] = NULL THEN w
  ELSE initializeTimeProperties(
         [w EXCEPT !.opLayers = w.viewMap[w.sceneView],
                   !.connLayers[w.viewMap[w.sceneView]] = @ + 1])

setGeoView(w, geoView) ==
  LET w1 == IF IsMapQuickView(geoView)
              THEN onMapChanged([w EXCEPT !.mapView = geoView, !.sceneView = NULL,
                                          !.connView[geoView] = @ + 1])
            ELSE IF IsSceneQuickView(geoView)
              THEN onSceneChanged([w EXCEPT !.sceneView = geoView, !.mapView = NULL,
                                            !.connView[geoView] = @ + 1])
            ELSE w
  IN  Emit(calculateStepPositions(w1), "currentTimeExtentChanged")

\* setStartInterval without the guard of lines 412-413.
setStartInterval_Unguarded(w, intervalIndex) ==
  LET start == toMSecsSinceEpoch(w.full.s)
      newStart == fromMSecsSinceEpoch(start + (intervalIndex * w.intervalMS))
      newExtent == TimeExtent(newStart, currentExtentEnd(w))
  IN  Emit(calculateStepPositions(setTimeExtent(w, newExtent)),
           "currentTimeExtentChanged")

setStartInterval(w, intervalIndex) ==
  IF w.full.empty
    THEN w
    ELSE LET start == toMSecsSinceEpoch(w.full.s)
             newStart == fromMSecsSinceEpoch(start + (intervalIndex * w.intervalMS))
             newExtent == TimeExtent(newStart, currentExtentEnd(w))
         IN  Emit(calculateStepPositions(setTimeExtent(w, newExtent)),
                  "currentTimeExtentChanged")

\* setEndInterval with the index clamped to 0 .. numberOfSteps - 1 first.
setEndInterval_Clamped(w, intervalIndex) ==
  IF w.full.empty
    THEN w
    ELSE LET start == toMSecsSinceEpoch(w.full.s)
             clamped == IF intervalIndex < 0 THEN 0
                        ELSE IF intervalIndex > w.numberOfSteps - 1
                          THEN w.numberOfSteps - 1
                        ELSE intervalIndex
             newEnd == fromMSecsSinceEpoch(start + (clamped * w.intervalMS))
             newExtent == TimeExtent(currentExtentStart(w), newEnd)
         IN  Emit(calculateStepPositions(setTimeExtent(w, newExtent)),
                  "currentTimeExtentChanged")

setEndInterval(w, intervalIndex) ==
  IF w.full.empty
    THEN w
    ELSE LET start == toMSecsSinceEpoch(w.full.s)
             newEnd == fromMSecsSinceEpoch(start + (intervalIndex * w.intervalMS))
             newExtent == TimeExtent(currentExtentStart(w), newEnd)
         IN  Emit(calculateStepPositions(setTimeExtent(w, newExtent)),
                  "currentTimeExtentChanged")

setStartAndEndIntervals(w, startIndex, endIndex) ==
  IF w.full.empty
    THEN w
    ELSE LET start == toMSecsSinceEpoch(w.full.s)
             newStart == fromMSecsSinceEpoch(start + (startIndex * w.intervalMS))
             newEnd == fromMSecsSinceEpoch(start + (endIndex * w.intervalMS))
             newExtent == TimeExtent(newStart, newEnd)
         IN  Emit(calculateStepPositions(setTimeExtent(w, newExtent)),
                  "currentTimeExtentChanged")


\* ------------------------------------------------------------- the run
\* The controller's members after construction (their in-class initialisers).
NewController ==
  [mapView |-> NULL, sceneView |-> NULL, opLayers |-> NULL, full |-> EmptyExtent,
   intervalMS |-> 0, numberOfSteps |-> 0, stepTimes |-> << >>, startStep |-> 0,
   endStep |-> 0]

NoOp == [name |-> "none", view |-> NULL, dataset |-> NULL, layer |-> NULL, i |-> 0, j |-> 0]
Op(name) == [NoOp EXCEPT !.name = name]

Init ==
  /\ world \in Worlds
  /\ m_mapView = NewController.mapView
  /\ m_sceneView = NewController.sceneView
  /\ m_operationalLayers = NewController.opLayers
  /\ m_fullTimeExtent = NewController.full
  /\ m_intervalMS = NewController.intervalMS
  /\ m_numberOfSteps = NewController.numberOfSteps
  /\ m_stepTimes = NewController.stepTimes
  /\ m_startStep = NewController.startStep
  /\ m_endStep = NewController.endStep
  /\ connView = [v \in Views |-> 0]
  /\ connLayers = [d \in Datasets |-> 0]
  /\ connDone = [l \in Layers |-> 0]
  /\ viewMap = [v \in Views |-> NULL]
  /\ viewExtent = [v \in Views |-> EmptyExtent]
  /\ layers = InitialLayers(world)
  /\ loadStatus = InitialLoadStatus
  /\ lastOp = NoOp
  /\ emitted = << >>
  /\ pushed = << >>
  /\ recomputes = << >>
  /\ crashed = FALSE
  /\ timeAwareIntervals = << >>
  /\ timeStepInterval = EmptyTimeValue
  /\ milisecondsRange = BigOfInt(0)
  /\ estimatedInterval = EmptyTimeValue
  /\ unioned = [timeExtent |-> EmptyExtent, otherTimeExtent |-> EmptyExtent,
                result |-> EmptyExtent]

\* No signal has more than MaxConn connections to the controller.
ConnsWithin(w) ==
  /\ \A v \in Views : w.connView[v] <= MaxConn
  /\ \A d \in Datasets : w.connLayers[d] <= MaxConn
  /\ \A l \in Layers : w.connDone[l] <= MaxConn

\* A signal with n connections to the slot runs it n times, while the
\* program lives.
RECURSIVE Deliver(_, _, _)
Deliver(w, n, slot) ==
  IF n = 0 \/ w.crashed
    THEN w
    ELSE Deliver(CASE slot = "onMapChanged" -> onMapChanged(w)
                   [] slot = "onSceneChanged" -> onSceneChanged(w)
                   [] OTHER -> onOperationalLayersChanged(w),
                 n - 1, slot)

Done(result, op) == \E w \in {result} : ConnsWithin(w) /\ Commit(w, op)

SetGeoView(v) ==
  /\ ~crashed
  /\ Done(setGeoView(Cur, v), [Op("setGeoView") EXCEPT !.view = v])

\* The application gives view v another map / scene: mapChanged / sceneChanged.
DatasetChanged(v, d) ==
  /\ ~crashed
  /\ d # viewMap[v]
  /\ Done(Deliver([Cur EXCEPT !.viewMap[v] = d], connView[v],
                  IF IsMapQuickView(v) THEN "onMapChanged" ELSE "onSceneChanged"),
          [Op("datasetChanged") EXCEPT !.view = v, !.dataset = d])

InSomeDataset(l) == \E d \in Datasets : \E i \in 1 .. Len(layers[d]) : layers[d][i] = l

\* The application appends layer l to d's operational layers: layerAdded.
LayerAdded(d, l) ==
  /\ ~crashed
  /\ ~InSomeDataset(l)
  /\ Done(Deliver([Cur EXCEPT !.layers[d] = Append(@, l)], connLayers[d],
                  "onOperationalLayersChanged"),
          [Op("layerAdded") EXCEPT !.dataset = d, !.layer = l])

RemoveAt(seq, i) == SubSeq(seq, 1, i - 1) \o SubSeq(seq, i + 1, Len(seq))

\* The application removes row i of d's operational layers: layerRemoved.
LayerRemoved(d, i) ==
  /\ ~crashed
  /\ i \in 1 .. Len(layers[d])
  /\ layers[d][i] \in world.movable
  /\ Done(Deliver([Cur EXCEPT !.layers[d] = RemoveAt(@, i)], connLayers[d],
                  "onOperationalLayersChanged"),
          [Op("layerRemoved") EXCEPT !.dataset = d, !.layer = layers[d][i]])

\* Layer l finishes loading with the given status: doneLoading.
DoneLoading(l, status) ==
  /\ ~crashed
  /\ loadStatus[l] \in {"NotLoaded", "Loading"}
  /\ Done(Deliver([Cur EXCEPT !.loadStatus[l] = status], connDone[l],
                  "onOperationalLayersChanged"),
          [Op("doneLoading") EXCEPT !.layer = l])

\* View v changes its own time extent; the controller has no connection to it.
ViewTimeExtentChanged(v, extent) ==
  /\ ~crashed
  /\ extent # viewExtent[v]
  /\ Done([Cur EXCEPT !.viewExtent[v] = extent],
          [Op("viewTimeExtentChanged") EXCEPT !.view = v])

SetStartInterval(i) ==
  /\ ~crashed
  /\ Done(setStartInterval(Cur, i), [Op("setStartInterval") EXCEPT !.i = i])

SetEndInterval(i) ==
  /\ ~crashed
  /\ Done(setEndInterval(Cur, i), [Op("setEndInterval") EXCEPT !.i = i])

SetStartAndEndIntervals(i, j) ==
  /\ ~crashed
  /\ Done(setStartAndEndIntervals(Cur, i, j),
          [Op("setStartAndEndIntervals") EXCEPT !.i = i, !.j = j])

Next ==
  \/ \E v \in world.views : SetGeoView(v)
  \/ \E v \in world.views : \E d \in DatasetsOf(v) \cap world.datasets :
       DatasetChanged(v, d)
  \/ \E l \in world.movable : LayerAdded("map1", l)
  \/ \E i \in 1 .. Len(layers["map1"]) : LayerRemoved("map1", i)
  \/ \E l \in {l \in Layers : l \in world.movable \/ InSomeDataset(l)} :
       \E status \in {"Loaded", "FailedToLoad"} : DoneLoading(l, status)
  \/ \E v \in world.views : \E extent \in world.extents : ViewTimeExtentChanged(v, extent)
  \/ \E i \in world.indices : SetStartInterval(i)
  \/ \E i \in world.indices : SetEndInterval(i)
  \/ \E i, j \in world.indices : SetStartAndEndIntervals(i, j)

Spec == Init /\ [][Next]_vars

\* -------------------------------------------- the interval selection alone
\* Intervals a layer may report: none, and durations in every unit, among
\* them equal lengths in different units.
IntervalChoices ==
  {EmptyTimeValue, TimeValue(1, "Days"), TimeValue(2, "Hours"), TimeValue(1, "Weeks"),
   TimeValue(7, "Days"), TimeValue(1, "Years"), TimeValue(12, "Months"),
   TimeValue(1, "Months"), TimeValue(1, "Decades"), TimeValue(1, "Centuries"),
   TimeValue(90, "Minutes"), TimeValue(5400, "Seconds"),
   TimeValue(1500, "Milliseconds"), TimeValue(2, "Seconds")}

\* The second loop of initializeTimeProperties visits one more eligible
\* layer, which reports timeAwareInterval.
VisitLayer(timeAwareInterval) ==
  /\ Len(timeAwareIntervals) < MaxLayers
  /\ timeAwareIntervals' = Append(timeAwareIntervals, timeAwareInterval)
  /\ timeStepInterval' = SelectInterval(timeStepInterval, timeAwareInterval)
  /\ UNCHANGED <<controllerVars, milisecondsRange, estimatedInterval, unioned>>

\* A controller just constructed, in a run of the current Qt.
InitAlone == Init /\ world = StepsWorld

NextInterval == \E timeAwareInterval \in IntervalChoices : VisitLayer(timeAwareInterval)

SpecInterval == InitAlone /\ [][NextInterval]_vars

\* ---------------------------------------------- the unit estimate alone
\* The bounds toTimeUnit compares with, and zero.
UnitBounds ==
  {BigOfInt(0), BigOfInt(millisecondsPerMinute), BigOfInt(millisecondsPerHour),
   BigDays(1), BigDays(daysPerYear), BigDays(daysPerYear * 100)}

Ranges == {BigNorm(b.d, b.ms + delta) : b \in UnitBounds, delta \in -MaxDelta .. MaxDelta}

\* initializeTimeProperties, lines 286-290, when no layer reported an
\* interval and the full extent has the given range.
EstimateInterval(range) ==
  /\ milisecondsRange' = range
  /\ estimatedInterval' = ResolveInterval(EmptyTimeValue, range)
  /\ UNCHANGED <<controllerVars, timeAwareIntervals, timeStepInterval, unioned>>

NextEstimate == \E range \in Ranges : EstimateInterval(range)

SpecEstimate == InitAlone /\ [][NextEstimate]_vars

\* ------------------------------------------------ unionTimeExtent alone
\* The empty extent and every extent start <= end within MaxTime of the epoch.
Extents ==
  {EmptyExtent} \cup
    {Ext(p[1], p[2]) :
       p \in {q \in (-MaxTime .. MaxTime) \X (-MaxTime .. MaxTime) : q[1] <= q[2]}}

\* unionTimeExtent(timeExtent, otherTimeExtent) is called.
UnionCalled(timeExtent, otherTimeExtent) ==
  /\ unioned' = [timeExtent |-> timeExtent, otherTimeExtent |-> otherTimeExtent,
                 result |-> unionTimeExtent(world.invalidLeast, timeExtent,
                                            otherTimeExtent)]
  /\ UNCHANGED <<controllerVars, timeAwareIntervals, timeStepInterval,
                 milisecondsRange, estimatedInterval>>

NextUnion ==
  \E timeExtent \in Extents : \E otherTimeExtent \in Extents :
    UnionCalled(timeExtent, otherTimeExtent)

\* A controller just constructed, against either generation of Qt.
InitEitherQt == Init /\ world \in {LayersWorld, OlderQtWorld}

SpecUnion == InitEitherQt /\ [][NextUnion]_vars



\* ================================================================ claims

\* new is at least as wide as old: a non-empty extent that starts no later
\* and ends no earlier; timestamps are read as milliseconds since the epoch.
Widened(new, old) ==
  /\ ~new.empty
  /\ toMSecsSinceEpoch(new.s) <= toMSecsSinceEpoch(old.s)
  /\ toMSecsSinceEpoch(new.e) >= toMSecsSinceEpoch(old.e)

\* C1: once fullTimeExtent is non-empty, every step of the program leaves
\* it an extent that starts no later and ends no earlier than before,
\* whatever extents (empty ones too) the eligible layers report.
C1_FullExtentOnlyWidens ==
  [][~m_fullTimeExtent.empty => Widened(m_fullTimeExtent', m_fullTimeExtent)]_vars


\* The millisecond range of the full extent.
FullRange == toMSecsSinceEpoch(m_fullTimeExtent.e) - toMSecsSinceEpoch(m_fullTimeExtent.s)

\* C2: after every operation, a non-empty full extent of range R >= 0 and
\* an interval I > 0 come with numberOfSteps = floor(R / I) + 1, and there
\* are numberOfSteps step times.
C2_StepCount ==
  (~m_fullTimeExtent.empty /\ FullRange >= 0 /\ m_intervalMS > 0) =>
    /\ m_numberOfSteps = (FullRange \div m_intervalMS) + 1
    /\ Len(m_stepTimes) = m_numberOfSteps

\* A recomputation has left a range that is no multiple of the interval.
C2_Witness ==
  /\ lastOp.name \in {"layerAdded", "layerRemoved", "doneLoading", "datasetChanged"}
  /\ recomputes # << >>
  /\ ~m_fullTimeExtent.empty /\ m_fullTimeExtent.s.valid /\ m_intervalMS > 0
  /\ FullRange % m_intervalMS # 0
  /\ m_numberOfSteps >= 2


\* C3: with a non-empty full extent, step time i (from 0) is the timestamp
\* fullTimeExtent.start + i * intervalMs, for every i below numberOfSteps;
\* timestamps are read as milliseconds since the epoch.
C3_StepTimes ==
  ~m_fullTimeExtent.empty =>
    \A i \in 1 .. m_numberOfSteps :
      /\ i <= Len(m_stepTimes)
      /\ toMSecsSinceEpoch(m_stepTimes[i]) =
           toMSecsSinceEpoch(m_fullTimeExtent.s) + (i - 1) * m_intervalMS


\* extent lies within full; timestamps are read as milliseconds since the epoch.
Contains(full, extent) ==
  \/ extent.empty
  \/ /\ ~full.empty
     /\ toMSecsSinceEpoch(full.s) <= toMSecsSinceEpoch(extent.s)
     /\ toMSecsSinceEpoch(extent.e) <= toMSecsSinceEpoch(full.e)

\* Layer l is a row of the collection the controller scans.
Scanned(l) ==
  /\ m_operationalLayers # NULL
  /\ \E i \in 1 .. Len(layers[m_operationalLayers]) : layers[m_operationalLayers][i] = l

\* C4: a recomputation unions no layer that is still loading; and when a
\* layer that an earlier recomputation had to skip completes loading, a
\* recomputation runs, after which the full extent contains the layer's
\* extent if the layer (a row of the scanned collection) is visible and
\* has time filtering enabled.
C4_DeferredLayerIncluded ==
  /\ \A k \in 1 .. Len(recomputes) : \A i \in 1 .. Len(recomputes[k].eligible) :
       loadStatus[recomputes[k].eligible[i]] \in {"Loaded", "FailedToLoad"}
  /\ \A l \in Layers :
       (/\ lastOp.name = "doneLoading" /\ lastOp.layer = l
        /\ connDone[l] > 0) =>
         /\ recomputes # << >>
         /\ (Scanned(l) /\ LayerTable[l].visible /\ LayerTable[l].filtering) =>
              Contains(m_fullTimeExtent, LayerTable[l].extent)


\* C5: a recomputation that finds no eligible layer leaves the full extent,
\* the interval, the number of steps, the step times and both step
\* positions as they were and emits no signal.
C5_NoEligibleLayerNoChange ==
  \A k \in 1 .. Len(recomputes) :
    recomputes[k].eligible = << >> =>
      ~recomputes[k].changed /\ recomputes[k].emits = 0

\* The only eligible layer has left a collection whose extent was derived.
C5_Witness ==
  /\ lastOp.name = "layerRemoved"
  /\ ~m_fullTimeExtent.empty
  /\ \E k \in 1 .. Len(recomputes) : recomputes[k].eligible = << >>

Setters == {"setStartInterval", "setEndInterval", "setStartAndEndIntervals"}

\* C6: while the full extent is empty, a call of setStartInterval,
\* setEndInterval or setStartAndEndIntervals pushes no extent to the view,
\* emits no signal and leaves startStep and endStep as they were.
C6_SettersGuarded ==
  [][(lastOp'.name \in Setters /\ m_fullTimeExtent.empty) =>
       /\ pushed' = << >>
       /\ emitted' = << >>
       /\ viewExtent' = viewExtent
       /\ m_startStep' = m_startStep
       /\ m_endStep' = m_endStep]_vars

\* A setter was called on an attached view, with an index that is not the
\* current position, while the full extent was empty.
C6_Witness ==
  /\ lastOp.name \in Setters
  /\ m_fullTimeExtent.empty
  /\ m_mapView # NULL
  /\ lastOp.i # m_startStep

\* The view setGeoView attached last, if any.
AttachedView ==
  IF m_mapView # NULL THEN m_mapView ELSE m_sceneView

\* C7: currentTimeExtent is the attached view's time extent when that is
\* not empty, and the full extent when it is empty or no view is attached;
\* currentExtentStart and currentExtentEnd are the bounds of that value as
\* the view reports it at the time of the read.
C7_CurrentExtentFallback ==
  /\ ~(m_mapView # NULL /\ m_sceneView # NULL)
  /\ (AttachedView # NULL /\ ~viewExtent[AttachedView].empty) =>
       /\ currentTimeExtent(Cur) = viewExtent[AttachedView]
       /\ currentExtentStart(Cur) = viewExtent[AttachedView].s
       /\ currentExtentEnd(Cur) = viewExtent[AttachedView].e
  /\ (AttachedView = NULL \/ viewExtent[AttachedView].empty) =>
       /\ currentTimeExtent(Cur) = m_fullTimeExtent
       /\ currentExtentStart(Cur) = m_fullTimeExtent.s
       /\ currentExtentEnd(Cur) = m_fullTimeExtent.e

\* The view's extent changed behind the controller's back and differs from
\* a derived full extent.
C7_Witness ==
  /\ lastOp.name = "viewTimeExtentChanged"
  /\ AttachedView # NULL
  /\ ~viewExtent[AttachedView].empty
  /\ ~m_fullTimeExtent.empty
  /\ viewExtent[AttachedView] # m_fullTimeExtent

\* The step of a timestamp, by the formula of calculateStepPositions.
StepOf(ts) ==
  ToInt(toMSecsSinceEpoch(ts) - toMSecsSinceEpoch(m_fullTimeExtent.s), m_intervalMS)

\* C8: with a full extent that is not empty, every index k of
\* 0 .. numberOfSteps - 1 is the step of the timestamp
\* fullExtentStart + k * intervalMS, and after setStartAndEndIntervals(a, b)
\* with 0 <= a <= b <= numberOfSteps - 1 startStep is a and endStep is b.
C8_IndexRoundTrip ==
  ~m_fullTimeExtent.empty =>
    /\ \A k \in 0 .. m_numberOfSteps - 1 :
         StepOf(fromMSecsSinceEpoch(toMSecsSinceEpoch(m_fullTimeExtent.s)
                                      + k * m_intervalMS)) = k
    /\ (/\ lastOp.name = "setStartAndEndIntervals"
        /\ 0 <= lastOp.i /\ lastOp.i <= lastOp.j /\ lastOp.j <= m_numberOfSteps - 1) =>
         m_startStep = lastOp.i /\ m_endStep = lastOp.j

C8_Witness ==
  /\ lastOp.name = "setStartAndEndIntervals"
  /\ ~m_fullTimeExtent.empty
  /\ 0 < lastOp.i /\ lastOp.i < lastOp.j /\ lastOp.j = m_numberOfSteps - 1
  /\ m_startStep = lastOp.i /\ m_endStep = lastOp.j


\* The intervals visited that are not empty.
Reported == {i \in 1 .. Len(timeAwareIntervals) : ~timeAwareIntervals[i].empty}

\* C9: when some eligible layer reports an interval, the interval the
\* recomputation resolves is, in milliseconds, the largest of the reported
\* intervals, whatever the order of the layers and whichever of them report
\* none.
C9_CoarsestInterval ==
  Reported # {} =>
    LET resolved == toMilliseconds(ResolveInterval(timeStepInterval, milisecondsRange))
    IN  /\ \A i \in Reported : ~BigLess(resolved, toMilliseconds(timeAwareIntervals[i]))
        /\ \E i \in Reported : resolved = toMilliseconds(timeAwareIntervals[i])

\* 1 Day, 2 Hours, 1 Week resolves to 1 Week.
C9_Witness ==
  /\ timeAwareIntervals = <<TimeValue(1, "Days"), TimeValue(2, "Hours"), TimeValue(1, "Weeks")>>
  /\ timeStepInterval = TimeValue(1, "Weeks")

BigLeq(a, b) == ~BigLess(b, a)

\* C10: the interval estimated for a range R is 1 unit, the unit being
\* Seconds for R < 60,000, Minutes for 60,000 <= R < 3,600,000, Hours for
\* 3,600,000 <= R < 86,400,000, Days for 86,400,000 <= R < 365 days, Years
\* for 365 days <= R <= 100 * 365 days and Centuries above; 59,999 /
\* 60,000 / 86,399,999 / 86,400,000 / 365 days - 1 / 365 days give Seconds /
\* Minutes / Hours / Days / Days / Years.
C10_EstimatedUnit ==
  ~estimatedInterval.empty =>
    LET R == milisecondsRange
        unit == estimatedInterval.unit
        minute == BigOfInt(60000)
        hour == BigOfInt(3600000)
        day == BigOfInt(86400000)
        year == BigMul(365, 86400000)
        century == BigMul(100 * 365, 86400000)
    IN  /\ estimatedInterval.duration = 1
        /\ BigLess(R, minute) => unit = "Seconds"
        /\ (BigLeq(minute, R) /\ BigLess(R, hour)) => unit = "Minutes"
        /\ (BigLeq(hour, R) /\ BigLess(R, day)) => unit = "Hours"
        /\ (BigLeq(day, R) /\ BigLess(R, year)) => unit = "Days"
        /\ (BigLeq(year, R) /\ BigLeq(R, century)) => unit = "Years"
        /\ BigLess(century, R) => unit = "Centuries"
        /\ R = BigOfInt(59999) => unit = "Seconds"
        /\ R = BigOfInt(60000) => unit = "Minutes"
        /\ R = BigOfInt(86399999) => unit = "Hours"
        /\ R = BigOfInt(86400000) => unit = "Days"
        /\ R = BigNorm(364, 86399999) => unit = "Days"
        /\ R = BigNorm(365, 0) => unit = "Years"

\* A range of exactly 100 years of 365 days was estimated as Years.
C10_Witness ==
  /\ milisecondsRange = BigDays(36500)
  /\ estimatedInterval = TimeValue(1, "Years")


\* Two extents are the same: both empty, or both not and with the same
\* bounds, read as milliseconds since the epoch.
SameExtent(a, b) ==
  /\ a.empty = b.empty
  /\ toMSecsSinceEpoch(a.s) = toMSecsSinceEpoch(b.s)
  /\ toMSecsSinceEpoch(a.e) = toMSecsSinceEpoch(b.e)

Min(a, b) == IF a <= b THEN a ELSE b
Max(a, b) == IF a >= b THEN a ELSE b

\* C11: the union of E and an empty extent is E, whichever operand is the
\* empty one, and the union of two non-empty extents is
\* [min of starts, max of ends].
C11_UnionIdentity ==
  /\ unioned.otherTimeExtent.empty => SameExtent(unioned.result, unioned.timeExtent)
  /\ unioned.timeExtent.empty => SameExtent(unioned.result, unioned.otherTimeExtent)
  /\ (~unioned.timeExtent.empty /\ ~unioned.otherTimeExtent.empty) =>
       /\ ~unioned.result.empty
       /\ toMSecsSinceEpoch(unioned.result.s) =
            Min(toMSecsSinceEpoch(unioned.timeExtent.s),
                toMSecsSinceEpoch(unioned.otherTimeExtent.s))
       /\ toMSecsSinceEpoch(unioned.result.e) =
            Max(toMSecsSinceEpoch(unioned.timeExtent.e),
                toMSecsSinceEpoch(unioned.otherTimeExtent.e))


\* Every recomputation of the last operation that changed none of the
\* derived properties emitted nothing.
RecomputationsQuiet ==
  \A k \in 1 .. Len(recomputes) :
    ~recomputes[k].changed => recomputes[k].emits = 0

\* C12: no notification is spurious: a recomputation after which the full
\* extent, the number of steps, the step times, both step positions and
\* the current extent are what they were emits no signal, and neither does
\* a call of a step setter that leaves them what they were.
C12_NoSpuriousNotification ==
  [][/\ RecomputationsQuiet'
     /\ (/\ lastOp'.name \in Setters
         /\ m_startStep' = m_startStep /\ m_endStep' = m_endStep
         /\ currentTimeExtent(Cur)' = currentTimeExtent(Cur)) =>
          emitted' = << >>]_vars


\* C13: the controller is subscribed to its current attachment only, once
\* per signal: a dataset change of the attached view, a layer added to or
\* removed from the collection in use, or the end of loading of a layer of
\* that collection runs exactly one recomputation; the same events on a
\* view or collection used before run none, and none stops the program.
C13_SubscriptionsOfAttachment ==
  /\ ~crashed
  /\ lastOp.name = "datasetChanged" =>
       Len(recomputes) = IF lastOp.view = AttachedView THEN 1 ELSE 0
  /\ lastOp.name \in {"layerAdded", "layerRemoved"} =>
       Len(recomputes) = IF lastOp.dataset = m_operationalLayers THEN 1 ELSE 0
  /\ lastOp.name = "doneLoading" =>
       Len(recomputes) =
         IF Scanned(lastOp.layer) /\ LayerTable[lastOp.layer].timeAware THEN 1 ELSE 0


\* C14: with a full extent that is not empty, startStep and endStep are the
\* steps of the bounds the attached view reports now, also after the view
\* has changed its time extent by itself.
C14_StepsFollowView ==
  (~m_fullTimeExtent.empty /\ m_intervalMS > 0) =>
    /\ m_startStep = StepOf(currentExtentStart(Cur))
    /\ m_endStep = StepOf(currentExtentEnd(Cur))


\* The smallest extent holding both a and b; an empty extent holds nothing.
Hull(a, b) ==
  IF a.empty THEN b
  ELSE IF b.empty THEN a
  ELSE Ext(Min(toMSecsSinceEpoch(a.s), toMSecsSinceEpoch(b.s)),
           Max(toMSecsSinceEpoch(a.e), toMSecsSinceEpoch(b.e)))

\* The union of the temporal ranges of a sequence of layers.
RECURSIVE HullOf(_)
HullOf(timeAwareLayers) ==
  IF timeAwareLayers = << >>
    THEN EmptyExtent
    ELSE Hull(LayerTable[Head(timeAwareLayers)].extent, HullOf(Tail(timeAwareLayers)))

\* C15: the collection scanned is the one of the attached view's dataset,
\* and after a recomputation with an eligible layer that a layer removal,
\* a dataset replacement or an attachment has triggered, the full extent
\* is the union of the ranges of the layers eligible then, nothing wider.
C15_ResetOnChange ==
  /\ (AttachedView # NULL /\ viewMap[AttachedView] # NULL) =>
       m_operationalLayers = viewMap[AttachedView]
  /\ (/\ lastOp.name \in {"layerRemoved", "datasetChanged", "setGeoView"}
      /\ recomputes # << >>
      /\ recomputes[Len(recomputes)].eligible # << >>) =>
       SameExtent(m_fullTimeExtent, HullOf(recomputes[Len(recomputes)].eligible))


\* The time extent the attached view holds; empty when no view is attached.
ViewExtent ==
  IF AttachedView = NULL THEN EmptyExtent ELSE viewExtent[AttachedView]

\* Both bounds of the extent lie between the bounds of full.
Within(full, extent) ==
  \A dt \in {extent.s, extent.e} :
    /\ dt.valid
    /\ toMSecsSinceEpoch(full.s) <= toMSecsSinceEpoch(dt)
    /\ toMSecsSinceEpoch(dt) <= toMSecsSinceEpoch(full.e)

\* The full extent has both bounds, the interval is positive and the view's
\* extent is empty or lies within the full extent.
WellFormed ==
  /\ ~m_fullTimeExtent.empty
  /\ m_fullTimeExtent.s.valid
  /\ m_fullTimeExtent.e.valid
  /\ m_intervalMS > 0
  /\ ViewExtent.empty \/ Within(m_fullTimeExtent, ViewExtent)

\* C16: with a full extent that is not empty, a positive interval and a view
\* extent that is empty or within the full extent, startStep and endStep
\* are indices of steps, 0 .. numberOfSteps - 1, after every operation.
C16_StepsInRange ==
  WellFormed =>
    /\ m_startStep \in 0 .. m_numberOfSteps - 1
    /\ m_endStep \in 0 .. m_numberOfSteps - 1


\* C17: while the full extent is empty there are no steps: numberOfSteps
\* is 0 and stepTimes is empty, also after a recomputation whose eligible
\* layers all report an empty range.
C17_EmptyExtentNoSteps ==
  m_fullTimeExtent.empty => (m_numberOfSteps = 0 /\ m_stepTimes = << >>)


\* The extent setStartInterval or setEndInterval of index i builds from the
\* current state: the bound of the index with the other bound as it is read.
Built(name, i) ==
  LET t == fromMSecsSinceEpoch(toMSecsSinceEpoch(m_fullTimeExtent.s) + i * m_intervalMS)
      current == IF viewExtent[AttachedView].empty
                   THEN m_fullTimeExtent
                   ELSE viewExtent[AttachedView]
  IN  IF name = "setStartInterval"
        THEN TimeExtent(t, current.e)
        ELSE TimeExtent(current.s, t)

\* C18: with a full extent that is not empty and a view attached,
\* setStartInterval(i) and setEndInterval(i) give the view one extent, the
\* bound fullExtentStart + i * intervalMS with the other bound as it was,
\* for every index i without clamping, and the steps afterwards are those
\* of the extent the view then reports.
C18_SettersPushUnclamped ==
  [][(/\ lastOp'.name \in {"setStartInterval", "setEndInterval"}
      /\ ~m_fullTimeExtent.empty
      /\ AttachedView # NULL) =>
       /\ pushed' = <<[view |-> AttachedView,
                       extent |-> Built(lastOp'.name, lastOp'.i)]>>
       /\ m_startStep' = StepOf(currentExtentStart(Cur))'
       /\ m_endStep' = StepOf(currentExtentEnd(Cur))']_vars

C18_Witness ==
  /\ lastOp.name = "setStartInterval"
  /\ lastOp.i >= m_numberOfSteps
  /\ Len(pushed) = 1
  /\ m_startStep = lastOp.i
  /\ toMSecsSinceEpoch(pushed[1].extent.s) > toMSecsSinceEpoch(m_fullTimeExtent.e)


\* The step of a timestamp when the quotient is rounded down.
FloorStepOf(ts) ==
  (toMSecsSinceEpoch(ts) - toMSecsSinceEpoch(m_fullTimeExtent.s)) \div m_intervalMS

\* C19: an operation that ends in calculateStepPositions leaves, with a full
\* extent that is not empty, startStep and endStep at the quotient of the
\* bound's offset from fullExtentStart by intervalMS rounded down, for a bound
\* before fullExtentStart too; with an empty full extent it leaves them alone.
C19_StepIsFloor ==
  [][(lastOp'.name \in Setters \cup {"setGeoView"} /\ ~crashed') =>
       IF m_fullTimeExtent'.empty
         THEN m_startStep' = m_startStep /\ m_endStep' = m_endStep
         ELSE m_intervalMS' > 0 =>
                /\ m_startStep' = FloorStepOf(currentExtentStart(Cur))'
                /\ m_endStep' = FloorStepOf(currentExtentEnd(Cur))']_vars


\* The notifications of the properties a recomputation derives.
PropertySignals ==
  {"fullTimeExtentChanged", "numberOfStepsChanged", "startStepChanged",
   "endStepChanged", "stepTimesChanged"}

\* What a slot reads at a notification fits together: a positive interval
\* with a non-empty full extent, the step count of that extent and interval,
\* and as many step times as steps.
Consistent(read) ==
  LET range == toMSecsSinceEpoch(read.full.e) - toMSecsSinceEpoch(read.full.s)
  IN  ~read.full.empty =>
        /\ read.intervalMS > 0
        /\ read.numberOfSteps = (range \div read.intervalMS) + 1
        /\ read.nStepTimes = read.numberOfSteps

\* C20: at each notification of a derived property that a recomputation
\* delivers, the state a slot reads is consistent: the interval, the number
\* of steps and the step times are those of the full extent it reads.
C20_NotificationsConsistent ==
  recomputes # << >> =>
    \A k \in 1 .. Len(emitted) :
      emitted[k].sig \in PropertySignals => Consistent(emitted[k])


====
